---- MODULE Spec2Model ----
(***************************************************************************)
(* Model of scripts/generate_package.py: the patch-series generator.       *)
(*                                                                         *)
(* Five specifications share the variables below:                          *)
(*   Spec         main() lines 496-497: simulate_apply, then write_patches *)
(*   SpecExtract  main() lines 456-494: exclusion filter, count guard,     *)
(*                materialisation of the commit list                       *)
(*   SpecLabel    collect_commit_patches on one commit with any subject    *)
(*   SpecCachy    collect_cachyos_patches                                  *)
(*   SpecWrite    write_patches called repeatedly on one directory         *)
(*                                                                         *)
(* git is an external program.  Its three modes of `git apply --cached`    *)
(* are modelled on a one-file tree whose content is a sequence of lines;   *)
(* a diff is one hunk: far context `ctx`, removed lines `del`, added lines *)
(* `add`, and whether the blob the diff was made against is available in   *)
(* the local repository (`blob`, needed by --3way).                        *)
(***************************************************************************)
EXTENDS Naturals, Sequences, FiniteSets, TLC

VARIABLES
    pc,                    \* position of main() / of the function under study
    \* ---- simulate_apply and its caller
    base_tree,             \* content of the tree base_treeish names
    cachyos,               \* must-apply patches, list of (label, content)
    tuxedo,                \* best-effort patches, list of (label, content)
    index_path,            \* the temporary index file: "absent", "exists", "removed"
    index,                 \* content of the staging index
    ci,                    \* position of the loop over cachyos
    ti,                    \* position of the loop over tuxedo
    outcome,               \* what apply_patch returned, per patch tried
    git_calls,             \* the git apply invocations made so far
    applied_tuxedo,
    failed_tuxedo,
    applied,               \* main's `applied`: the list simulate_apply returned
    dest_dir,              \* PACKAGE_PATCHES_DIR / write_patches' dest_dir
    \* ---- write_patches studied alone
    patches,
    start_number,
    dir_before,            \* dest_dir as each call so far found it
    runs,
    \* ---- commit set extraction
    exclude_commits,       \* EXCLUDE_COMMITS
    ordered_tuxedo_unique,
    rev_out,               \* what rev_list_range returned
    tuxedo_subjects,
    tuxedo_patches,
    \* ---- collect_cachyos_patches
    source_lines,          \* stdout of the PKGBUILD evaluation, split in lines
    repo_files,            \* files present under patches_repo / folder
    patch_urls,
    collected              \* the returned list, or NoList

simVars   == <<base_tree, cachyos, tuxedo, index_path, index, ci, ti, outcome,
               git_calls, applied_tuxedo, failed_tuxedo, applied>>
writeVars == <<patches, start_number, dir_before, runs>>
extVars   == <<exclude_commits, ordered_tuxedo_unique, rev_out, tuxedo_subjects,
               tuxedo_patches>>
cachyVars == <<source_lines, repo_files, patch_urls, collected>>
vars      == <<pc, simVars, dest_dir, writeVars, extVars, cachyVars>>

-----------------------------------------------------------------------------
(* Bounds of the model *)

MaxCachyos == 2     \* longest must-apply list
MaxTuxedo  == 2     \* longest best-effort list
MaxPatches == 2     \* longest list handed to write_patches studied alone
MaxRuns    == 2     \* calls of write_patches on one directory
MaxRevList == 52    \* longest list rev_list_range returns
MaxSources == 3     \* longest source array of the PKGBUILD
MaxSubject == 4     \* longest commit subject drawn from SubjectChars

-----------------------------------------------------------------------------
(* Generic helpers *)

NoList == "None"    \* Python's None where a list is expected

SeqsUpTo(S, lo, hi) == UNION {[1..n -> S] : n \in lo..hi}

\* s occurs in f as a contiguous run starting right after offset k
OccursAt(s, f, k) ==
    /\ k + Len(s) <= Len(f)
    /\ SubSeq(f, k + 1, k + Len(s)) = s

Occurs(s, f) == \E k \in 0..Len(f) : OccursAt(s, f, k)

FirstAt(s, f) == CHOOSE k \in 0..Len(f) :
                    /\ OccursAt(s, f, k)
                    /\ \A j \in 0..Len(f) : OccursAt(s, f, j) => k <= j

\* f with the first occurrence of s replaced by t
Replace(f, s, t) ==
    LET k == FirstAt(s, f)
    IN  SubSeq(f, 1, k) \o t \o SubSeq(f, k + Len(s) + 1, Len(f))

-----------------------------------------------------------------------------
(* Patches.  A Patch is (label, content); content is diff text, which git  *)
(* parses: Diff gives the hunk a content string stands for.                *)

Patch(l, c) == [label |-> l, content |-> c]

Diff(content) ==
    CASE content = "a->b"        -> [ctx |-> <<>>,    del |-> <<"a">>, add |-> <<"b">>, blob |-> TRUE]
      [] content = "a->b noblob" -> [ctx |-> <<>>,    del |-> <<"a">>, add |-> <<"b">>, blob |-> FALSE]
      [] content = "c+c"         -> [ctx |-> <<"c">>, del |-> <<>>,    add |-> <<"c">>, blob |-> TRUE]
      [] content = "x:a->d"      -> [ctx |-> <<"x">>, del |-> <<"a">>, add |-> <<"d">>, blob |-> TRUE]

PatchCatalog ==
    { Patch("fix", "a->b"), Patch("fix", "a->b noblob"),
      Patch("dup", "c+c"),  Patch("drift", "x:a->d") }

BaseTrees == { <<"a", "c", "c">>, <<"b", "c", "c">> }

Pre(d)  == d.ctx \o d.del     \* what the hunk expects to find
Post(d) == d.ctx \o d.add     \* what the hunk leaves behind

-----------------------------------------------------------------------------
(* git apply --cached on the staging index.  An index holding unmerged     *)
(* (conflict-stage) entries for the path refuses every further apply.      *)

NoIndex == [file |-> <<>>, unmerged |-> FALSE]

\* git read-tree base_treeish
GitReadTree(tree) == [file |-> tree, unmerged |-> FALSE]

\* git apply --cached -
GitApply(ix, d) ==
    IF ~ix.unmerged /\ Occurs(Pre(d), ix.file)
    THEN [rc |-> 0, index |-> [ix EXCEPT !.file = Replace(ix.file, Pre(d), Post(d))],
          stderr |-> ""]
    ELSE [rc |-> 1, index |-> ix, stderr |-> "error: patch does not apply"]

\* git apply --cached - --reverse --check : a dry run, the index is not written
GitApplyReverseCheck(ix, d) ==
    IF ~ix.unmerged /\ Occurs(Post(d), ix.file)
    THEN [rc |-> 0, index |-> ix, stderr |-> ""]
    ELSE [rc |-> 1, index |-> ix, stderr |-> "error: patch does not apply"]

\* git apply --cached - --3way, run after the plain apply failed.  Without the
\* blob it falls back to the plain apply, which fails.  With it the merge is
\* clean when our side already holds the change, or holds the removed lines
\* under drifted context; otherwise the merge conflicts, the command fails, and
\* depending on the git version the conflict stages are left in the index
\* (`stages`) or the index is left alone.
GitApply3way(ix, d, stages) ==
    IF ix.unmerged \/ ~d.blob
    THEN [rc |-> 1, index |-> ix,
          stderr |-> "error: repository lacks the necessary blob"]
    ELSE IF Occurs(Post(d), ix.file)
    THEN [rc |-> 0, index |-> ix, stderr |-> ""]
    ELSE IF d.del # <<>> /\ Occurs(d.del, ix.file)
    THEN [rc |-> 0, index |-> [ix EXCEPT !.file = Replace(ix.file, d.del, d.add)],
          stderr |-> ""]
    ELSE [rc |-> 1, index |-> [ix EXCEPT !.unmerged = stages],
          stderr |-> "error: patch applied with conflicts"]

-----------------------------------------------------------------------------
(* simulate_apply.apply_patch *)

FirstNonEmpty(strs) ==
    IF \E i \in 1..Len(strs) : strs[i] # ""
    THEN strs[CHOOSE i \in 1..Len(strs) :
                 /\ strs[i] # ""
                 /\ \A j \in 1..(i - 1) : strs[j] = ""]
    ELSE ""

\* msg = res_three_way.stderr or res_three_way.stdout or res.stderr or res.stdout
\*       or "apply failed"   (git writes its errors to stderr; stdout is empty)
FailureMessage(res, res_three_way) ==
    FirstNonEmpty(<<res_three_way.stderr, "", res.stderr, "", "apply failed">>)

\* One git apply invocation, as run_git prints it, with its return code
Call(mode, res) == [mode |-> mode, rc |-> res.rc]

\* apply_patch as it would be without the reverse check
apply_patch_NoReverseCheck(ix, content, allow_skip, stages) ==
    LET d             == Diff(content)
        res           == GitApply(ix, d)
        res_three_way == GitApply3way(ix, d, stages)
    IN  IF res.rc = 0
        THEN [status |-> "applied", msg |-> "", index |-> res.index,
              calls |-> <<Call("apply", res)>>]
        ELSE IF res_three_way.rc = 0
        THEN [status |-> "applied", msg |-> "", index |-> res_three_way.index,
              calls |-> <<Call("apply", res), Call("3way", res_three_way)>>]
        ELSE [status |-> "failed", msg |-> FailureMessage(res, res_three_way),
              index |-> res_three_way.index,
              calls |-> <<Call("apply", res), Call("3way", res_three_way)>>]

\* Returns the (status, msg) pair together with the index git leaves behind and
\* the git apply invocations that were made, in order.
apply_patch(ix, content, allow_skip, stages) ==
    LET d             == Diff(content)
        res           == GitApply(ix, d)
        reverse_check == GitApplyReverseCheck(ix, d)
        res_three_way == GitApply3way(ix, d, stages)
        tried         == IF allow_skip
                         THEN <<Call("apply", res), Call("reverse-check", reverse_check)>>
                         ELSE <<Call("apply", res)>>
    IN  IF res.rc = 0
        THEN [status |-> "applied", msg |-> "", index |-> res.index,
              calls |-> <<Call("apply", res)>>]
        ELSE IF allow_skip /\ reverse_check.rc = 0
        THEN [status |-> "skipped", msg |-> "already applied (reverse clean)",
              index |-> reverse_check.index, calls |-> tried]
        ELSE IF res_three_way.rc = 0
        THEN [status |-> "applied", msg |-> "", index |-> res_three_way.index,
              calls |-> Append(tried, Call("3way", res_three_way))]
        ELSE [status |-> "failed", msg |-> FailureMessage(res, res_three_way),
              index |-> res_three_way.index,
              calls |-> Append(tried, Call("3way", res_three_way))]

\* The log entries of one apply_patch call on patch k of group g
CallsOf(g, k, calls) ==
    [m \in 1..Len(calls) |-> [group |-> g, k |-> k, mode |-> calls[m].mode, rc |-> calls[m].rc]]

-----------------------------------------------------------------------------
(* write_patches *)

\* f"{current:04d}": decimal, zero-padded on the left to at least 4 digits
Fmt04d(n) ==
    LET s == ToString(n)
    IN  IF Len(s) >= 4 THEN s ELSE SubSeq("0000", 1, 4 - Len(s)) \o s

\* f"{current:04d}-{label}.patch"
FileName(current, label) == Fmt04d(current) \o "-" \o label \o ".patch"

NoDir == [exists |-> FALSE, files |-> <<>>]

\* (dest_dir / filename).write_text(content): creates or overwrites
WriteText(files, name, content) ==
    [n \in (DOMAIN files) \cup {name} |-> IF n = name THEN content ELSE files[n]]

\* write_patches as it would be without the rmtree
ClearDir_Keep(dir) == IF dir.exists THEN dir ELSE [exists |-> TRUE, files |-> <<>>]

\* shutil.rmtree(dest_dir) if it exists, then mkdir: an existing, empty directory
ClearDir(dir) == [exists |-> TRUE, files |-> <<>>]

RECURSIVE WriteLoop(_, _, _)
WriteLoop(files, ps, current) ==
    IF ps = <<>> THEN files
    ELSE WriteLoop(WriteText(files, FileName(current, Head(ps).label), Head(ps).content),
                   Tail(ps), current + 1)

write_patches(ps, dir, start) ==
    LET cleared == ClearDir(dir)
    IN  [cleared EXCEPT !.files = WriteLoop(cleared.files, ps, start)]

-----------------------------------------------------------------------------
(* simulate_apply and the two lines of main() around it *)

\* the CachyOS loop as it would be with allow_skip=True
CachyosAllowSkip_True == TRUE

\* allow_skip as passed for a CachyOS patch (line 408)
CachyosAllowSkip == FALSE

\* allow_skip as passed for a Tuxedo patch (line 418)
TuxedoAllowSkip == TRUE

\* the CachyOS loop as it would be without the raise
MustApplyFatal_Never(status) == FALSE

\* `if status == "failed": raise RuntimeError(...)` in the CachyOS loop
MustApplyFatal(status) == status = "failed"

\* the Tuxedo loop as it would be if failures were not recorded
RecordFailed_Dropped(failed, label, msg) == failed

\* `failed_tuxedo.append((label, msg))`
RecordFailed(failed, label, msg) == Append(failed, <<label, msg>>)

\* the return as it would be with the groups swapped
ReturnValue_Swapped(c, a) == a \o c

\* `return cachyos + applied_tuxedo`
ReturnValue(c, a) == c \o a

\* the cleanup as it would be at the end of the try block instead of in finally
FinallyUnlink_OnReturnOnly(how, path) == IF how = "return" THEN "removed" ELSE path

\* `finally: Path(index_path).unlink(missing_ok=True)`; how is the way the try
\* block was left: "return" or "raise"
FinallyUnlink(how, path) == "removed"

\* What one call of apply_patch on patch k of group g found (before) and returned
Outcome(g, k, r, ix) ==
    [group |-> g, k |-> k, status |-> r.status, msg |-> r.msg, before |-> ix]

\* Directories write_patches may find at dest_dir
StaleDir ==
    [exists |-> TRUE,
     files  |-> ("0001-fix.patch" :> "stale") @@ ("0009-old.patch" :> "stale")]

PreExistingDirs == { NoDir, [exists |-> TRUE, files |-> <<>>], StaleDir }

WriteIdle   == patches = <<>> /\ start_number = 1 /\ dir_before = <<>> /\ runs = 0
ExtractIdle == /\ exclude_commits = {} /\ ordered_tuxedo_unique = <<>> /\ rev_out = <<>>
               /\ tuxedo_subjects = <<>> /\ tuxedo_patches = <<>>
CachyIdle   == source_lines = <<>> /\ repo_files = {} /\ patch_urls = <<>> /\ collected = NoList
SimIdle     == /\ base_tree = <<>> /\ cachyos = <<>> /\ tuxedo = <<>>
               /\ index_path = "absent" /\ index = NoIndex /\ ci = 1 /\ ti = 1
               /\ outcome = <<>> /\ git_calls = <<>>
               /\ applied_tuxedo = <<>> /\ failed_tuxedo = <<>> /\ applied = NoList

\* main() has collected both patch lists and is about to call simulate_apply.
\* collect_cachyos_patches never returns an empty list.
Init ==
    /\ pc = "simulate"
    /\ base_tree \in BaseTrees
    /\ cachyos \in SeqsUpTo(PatchCatalog, 1, MaxCachyos)
    /\ tuxedo \in SeqsUpTo(PatchCatalog, 0, MaxTuxedo)
    /\ index_path = "absent" /\ index = NoIndex /\ ci = 1 /\ ti = 1
    /\ outcome = <<>> /\ git_calls = <<>>
    /\ applied_tuxedo = <<>> /\ failed_tuxedo = <<>> /\ applied = NoList
    /\ dest_dir \in {NoDir, StaleDir}
    /\ WriteIdle /\ ExtractIdle /\ CachyIdle

\* lines 361-368: the temporary index file is created (delete=False)
SimulateEnter ==
    /\ pc = "simulate"
    /\ index_path' = "exists"
    /\ pc' = "read_tree"
    /\ UNCHANGED <<base_tree, cachyos, tuxedo, index, ci, ti, outcome, git_calls,
                   applied_tuxedo, failed_tuxedo, applied, dest_dir,
                   writeVars, extVars, cachyVars>>

\* lines 370-371: read-tree with check=True; a bad base_treeish raises
ReadTree ==
    /\ pc = "read_tree"
    /\ \E ok \in BOOLEAN :
         IF ok
         THEN /\ index' = GitReadTree(base_tree)
              /\ pc' = "cachyos"
              /\ UNCHANGED index_path
         ELSE /\ index_path' = FinallyUnlink("raise", index_path)
              /\ pc' = "raised"
              /\ UNCHANGED index
    /\ UNCHANGED <<base_tree, cachyos, tuxedo, ci, ti, outcome, git_calls,
                   applied_tuxedo, failed_tuxedo, applied, dest_dir,
                   writeVars, extVars, cachyVars>>

\* lines 406-412: one iteration of the loop over cachyos
CachyosStep ==
    /\ pc = "cachyos"
    /\ ci <= Len(cachyos)
    /\ \E stages \in BOOLEAN :
         LET r == apply_patch(index, cachyos[ci].content, CachyosAllowSkip, stages)
         IN  /\ git_calls' = git_calls \o CallsOf("cachyos", ci, r.calls)
             /\ outcome' = Append(outcome, Outcome("cachyos", ci, r, index))
             /\ index' = r.index
             /\ IF MustApplyFatal(r.status)
                THEN /\ pc' = "raised"
                     /\ index_path' = FinallyUnlink("raise", index_path)
                     /\ UNCHANGED ci
                ELSE /\ ci' = ci + 1
                     /\ pc' = IF ci = Len(cachyos) THEN "tuxedo" ELSE "cachyos"
                     /\ UNCHANGED index_path
    /\ UNCHANGED <<base_tree, cachyos, tuxedo, ti, applied_tuxedo, failed_tuxedo,
                   applied, dest_dir, writeVars, extVars, cachyVars>>

\* lines 416-424: one iteration of the loop over tuxedo
TuxedoStep ==
    /\ pc = "tuxedo"
    /\ ti <= Len(tuxedo)
    /\ \E stages \in BOOLEAN :
         LET p == tuxedo[ti]
             r == apply_patch(index, p.content, TuxedoAllowSkip, stages)
         IN  /\ git_calls' = git_calls \o CallsOf("tuxedo", ti, r.calls)
             /\ outcome' = Append(outcome, Outcome("tuxedo", ti, r, index))
             /\ index' = r.index
             /\ IF r.status = "applied"
                THEN /\ applied_tuxedo' = Append(applied_tuxedo, p)
                     /\ UNCHANGED failed_tuxedo
                ELSE IF r.status = "skipped"
                THEN UNCHANGED <<applied_tuxedo, failed_tuxedo>>
                ELSE /\ failed_tuxedo' = RecordFailed(failed_tuxedo, p.label, r.msg)
                     /\ UNCHANGED applied_tuxedo
    /\ ti' = ti + 1
    /\ UNCHANGED <<pc, base_tree, cachyos, tuxedo, index_path, ci, applied, dest_dir,
                   writeVars, extVars, cachyVars>>

\* lines 426-433: the warning summary, the return, and the finally clause
SimulateReturn ==
    /\ pc = "tuxedo"
    /\ ti > Len(tuxedo)
    /\ applied' = ReturnValue(cachyos, applied_tuxedo)
    /\ index_path' = FinallyUnlink("return", index_path)
    /\ pc' = "returned"
    /\ UNCHANGED <<base_tree, cachyos, tuxedo, index, ci, ti, outcome, git_calls,
                   applied_tuxedo, failed_tuxedo, dest_dir,
                   writeVars, extVars, cachyVars>>

\* line 497: write_patches(applied, PACKAGE_PATCHES_DIR)
MainWritePatches ==
    /\ pc = "returned"
    /\ dest_dir' = write_patches(applied, dest_dir, 1)
    /\ pc' = "done"
    /\ UNCHANGED <<simVars, writeVars, extVars, cachyVars>>

Next ==
    \/ SimulateEnter
    \/ ReadTree
    \/ CachyosStep
    \/ TuxedoStep
    \/ SimulateReturn
    \/ MainWritePatches

Spec == Init /\ [][Next]_vars

-----------------------------------------------------------------------------
(* write_patches studied alone: called MaxRuns times with the same          *)
(* arguments on a directory found in any state                              *)

WritePatchSet == { Patch(l, c) : l \in {"fix", "dup"}, c \in {"x", "y"} }

StartNumbers == {1, 9999}

InitWrite ==
    /\ pc = "write"
    /\ patches \in SeqsUpTo(WritePatchSet, 0, MaxPatches)
    /\ start_number \in StartNumbers
    /\ dest_dir \in PreExistingDirs
    /\ dir_before = <<>>
    /\ runs = 0
    /\ SimIdle /\ ExtractIdle /\ CachyIdle

\* lines 436-446
WritePatches ==
    /\ pc = "write"
    /\ runs < MaxRuns
    /\ dir_before' = Append(dir_before, dest_dir)
    /\ dest_dir' = write_patches(patches, dest_dir, start_number)
    /\ runs' = runs + 1
    /\ UNCHANGED <<pc, patches, start_number, simVars, extVars, cachyVars>>

NextWrite == WritePatches

SpecWrite == InitWrite /\ [][NextWrite]_vars

-----------------------------------------------------------------------------
(* Strings, as Python slices and tests them *)

CharAt(str, i) == SubSeq(str, i, i)

\* str[:n]
Slice(str, n) == IF Len(str) <= n THEN str ELSE SubSeq(str, 1, n)

\* str[n:]
From(str, n) == IF n >= Len(str) THEN "" ELSE SubSeq(str, n + 1, Len(str))

StartsWith(str, pre) == Len(pre) <= Len(str) /\ SubSeq(str, 1, Len(pre)) = pre

EndsWith(str, suf) ==
    Len(suf) <= Len(str) /\ SubSeq(str, Len(str) - Len(suf) + 1, Len(str)) = suf

-----------------------------------------------------------------------------
(* Commit set extraction: main() lines 456-494 *)

MaxTuxedoCommits == 50     \* `if len(ordered_tuxedo_unique) > 50`
AbbrevLen        == 12     \* `h[:12]`, `commit[:12]`

HexDigit(n) == CharAt("0123456789abcdef", n + 1)

\* The full identifier of the k-th commit of the model: 40 hex digits
HashOf(k) ==
    HexDigit(k \div 16) \o HexDigit(k % 16) \o "7b53f08bb8b7dcf4e9ae551bc8f9c65a05568c"

\* Entries EXCLUDE_COMMITS may hold: full identifiers and abbreviations
ExcludeLens    == {8, 12, 40}
ExcludedCommits == {1, 2, 51}
ExcludeEntries == { Slice(HashOf(k), n) : k \in ExcludedCommits, n \in ExcludeLens }
ExcludeSets    == { E \in SUBSET ExcludeEntries : Cardinality(E) <= 2 }

\* the guard as it would be with the bound off by one
TooMany_OffByOne(commits) == Len(commits) > MaxTuxedoCommits + 1

\* `len(ordered_tuxedo_unique) > 50`
TooMany(commits) == Len(commits) > MaxTuxedoCommits

\* `h not in EXCLUDE_COMMITS and h[:12] not in EXCLUDE_COMMITS`
Kept(h, excl) == h \notin excl /\ Slice(h, AbbrevLen) \notin excl

\* lines 462-463
ExcludeFilter(commits, excl) ==
    IF excl # {}
    THEN SelectSeq(commits, LAMBDA h : Kept(h, excl))
    ELSE commits

\* Subject lines of the commits of the model; git show prints none for some
SubjectTable == <<"TUXEDO: Add foo (v2)", "", "???", "-x-", "[a/b] c_d.e">>
HasSubject(k) == k % 6 # 0
SubjectOfCommit(k) == SubjectTable[(k % 5) + 1]

\* bulk_subjects: hash -> subject for the commits git show printed a line for
bulk_subjects(hashes) ==
    LET known == {k \in 0..255 : HashOf(k) \in {hashes[i] : i \in 1..Len(hashes)}
                                  /\ HasSubject(k)}
    IN  [h \in {HashOf(k) : k \in known} |->
            SubjectOfCommit(CHOOSE k \in known : HashOf(k) = h)]

\* subjects.get(commit, "")
SubjectGet(subjects, commit) ==
    IF commit \in DOMAIN subjects THEN subjects[commit] ELSE ""

SafeChars == "ABCDEFGHIJKLMNOPQRSTUVWXYZabcdefghijklmnopqrstuvwxyz0123456789._-"
IsSafe(c) == \E i \in 1..Len(SafeChars) : CharAt(SafeChars, i) = c

\* re.sub(r"[^A-Za-z0-9._-]+", "-", str): each maximal run of other characters
\* becomes one hyphen
RECURSIVE SubUnsafeRuns(_, _)
SubUnsafeRuns(str, inRun) ==
    IF str = "" THEN ""
    ELSE LET c == CharAt(str, 1)
         IN  IF IsSafe(c) THEN c \o SubUnsafeRuns(From(str, 1), FALSE)
             ELSE IF inRun THEN SubUnsafeRuns(From(str, 1), TRUE)
             ELSE "-" \o SubUnsafeRuns(From(str, 1), TRUE)

\* str.strip("-")
RECURSIVE StripHyphens(_)
StripHyphens(str) ==
    IF str = "" THEN ""
    ELSE IF CharAt(str, 1) = "-" THEN StripHyphens(From(str, 1))
    ELSE IF CharAt(str, Len(str)) = "-" THEN StripHyphens(Slice(str, Len(str) - 1))
    ELSE str

\* line 347 as it would be without the `or commit[:12]`
SafeSubject_NoFallback(subject, commit) == StripHyphens(SubUnsafeRuns(subject, FALSE))

\* line 347
SafeSubject(subject, commit) ==
    LET t == StripHyphens(SubUnsafeRuns(subject, FALSE))
    IN  IF t # "" THEN t ELSE Slice(commit, AbbrevLen)

\* git format-patch -1 <commit> --stdout
FormatPatch(commit) == "From " \o commit

\* collect_commit_patches: one patch per commit, in order
collect_commit_patches(commits, subjects) ==
    [i \in 1..Len(commits) |->
        Patch(SafeSubject(SubjectGet(subjects, commits[i]), commits[i]),
              FormatPatch(commits[i]))]

InitExtract ==
    /\ pc = "rev_list"
    /\ \E n \in 0..MaxRevList : rev_out = [i \in 1..n |-> HashOf(i)]
    /\ exclude_commits \in ExcludeSets
    /\ ordered_tuxedo_unique = <<>>
    /\ tuxedo_subjects = <<>>
    /\ tuxedo_patches = <<>>
    /\ dest_dir = NoDir
    /\ SimIdle /\ WriteIdle /\ CachyIdle

\* lines 456-461: rev_list_range; a failing git rev-list ends the run
RevListRange ==
    /\ pc = "rev_list"
    /\ \E ok \in BOOLEAN :
         IF ok
         THEN /\ ordered_tuxedo_unique' = rev_out
              /\ pc' = "filter"
         ELSE /\ pc' = "exit"
              /\ UNCHANGED ordered_tuxedo_unique
    /\ UNCHANGED <<exclude_commits, rev_out, tuxedo_subjects, tuxedo_patches,
                   simVars, dest_dir, writeVars, cachyVars>>

\* lines 462-463
ApplyExclusionSet ==
    /\ pc = "filter"
    /\ ordered_tuxedo_unique' = ExcludeFilter(ordered_tuxedo_unique, exclude_commits)
    /\ pc' = "guard"
    /\ UNCHANGED <<exclude_commits, rev_out, tuxedo_subjects, tuxedo_patches,
                   simVars, dest_dir, writeVars, cachyVars>>

\* lines 464-466: the count guard, then bulk_subjects
CountGuard ==
    /\ pc = "guard"
    /\ IF TooMany(ordered_tuxedo_unique)
       THEN /\ pc' = "exit"
            /\ UNCHANGED tuxedo_subjects
       ELSE /\ tuxedo_subjects' = bulk_subjects(ordered_tuxedo_unique)
            /\ pc' = "materialize"
    /\ UNCHANGED <<exclude_commits, ordered_tuxedo_unique, rev_out, tuxedo_patches,
                   simVars, dest_dir, writeVars, cachyVars>>

\* lines 489-494
Materialize ==
    /\ pc = "materialize"
    /\ tuxedo_patches' = collect_commit_patches(ordered_tuxedo_unique, tuxedo_subjects)
    /\ pc' = "materialized"
    /\ UNCHANGED <<exclude_commits, ordered_tuxedo_unique, rev_out, tuxedo_subjects,
                   simVars, dest_dir, writeVars, cachyVars>>

NextExtract ==
    \/ RevListRange
    \/ ApplyExclusionSet
    \/ CountGuard
    \/ Materialize

SpecExtract == InitExtract /\ [][NextExtract]_vars

-----------------------------------------------------------------------------
(* collect_commit_patches studied alone, on one commit with any subject     *)

\* Characters subjects are drawn from: a letter, the hyphen, the dot, and two
\* characters outside [A-Za-z0-9._-]
SubjectChars == {"a", "-", ".", "!", " "}

RECURSIVE StringsUpTo(_)
StringsUpTo(n) ==
    IF n = 0 THEN {""}
    ELSE LET shorter == StringsUpTo(n - 1)
         IN  shorter \cup {str \o c : str \in shorter, c \in SubjectChars}

LabelCommits == {HashOf(1), HashOf(171)}

\* Subjects git show may print: short strings, the subjects of SubjectTable,
\* and subjects that read like an abbreviated commit identifier
LabelSubjects ==
    StringsUpTo(MaxSubject)
        \cup {SubjectTable[i] : i \in 1..Len(SubjectTable)}
        \cup {Slice(h, AbbrevLen) : h \in LabelCommits}

\* main() is about to call collect_commit_patches; tuxedo_subjects has a line
\* for the commit, or for another commit, or is empty
InitLabel ==
    /\ pc = "materialize"
    /\ \E c \in LabelCommits :
          /\ rev_out = <<c>>
          /\ ordered_tuxedo_unique = <<c>>
    /\ \/ tuxedo_subjects = <<>>
       \/ \E h \in LabelCommits, subj \in LabelSubjects :
             tuxedo_subjects = [x \in {h} |-> subj]
    /\ exclude_commits = {}
    /\ tuxedo_patches = <<>>
    /\ dest_dir = NoDir
    /\ SimIdle /\ WriteIdle /\ CachyIdle

NextLabel == Materialize

SpecLabel == InitLabel /\ [][NextLabel]_vars

-----------------------------------------------------------------------------
(* collect_cachyos_patches *)

Folder == "6.19"     \* CACHYOS_PATCHES_FOLDER

IsSpace(c) == c \in {" ", "\t"}

\* str.strip()
RECURSIVE Strip(_)
Strip(str) ==
    IF str = "" THEN ""
    ELSE IF IsSpace(CharAt(str, 1)) THEN Strip(From(str, 1))
    ELSE IF IsSpace(CharAt(str, Len(str))) THEN Strip(Slice(str, Len(str) - 1))
    ELSE str

\* str.split(marker, 1)[1], for a str that holds marker
AfterFirst(str, marker) == From(str, FirstAt(marker, str) + Len(marker))

\* Offset of the last occurrence of the one-character string c in str, 0 if none
LastIndexOf(c, str) ==
    IF \E i \in 1..Len(str) : CharAt(str, i) = c
    THEN CHOOSE i \in 1..Len(str) :
            /\ CharAt(str, i) = c
            /\ \A j \in (i + 1)..Len(str) : CharAt(str, j) # c
    ELSE 0

\* str.rsplit("/", 1)[-1]
AfterLastSlash(str) == From(str, LastIndexOf("/", str))

\* Path(rel).stem: the final component without its last suffix
Stem(rel) ==
    LET name == AfterLastSlash(rel)
        dot  == LastIndexOf(".", name)
    IN  IF dot > 1 /\ dot < Len(name) THEN Slice(name, dot - 1) ELSE name

IsDigit(c) == \E i \in 1..10 : CharAt("0123456789", i) = c

\* Length of the run of digits str starts with
RECURSIVE DigitRun(_)
DigitRun(str) ==
    IF str # "" /\ IsDigit(CharAt(str, 1)) THEN 1 + DigitRun(From(str, 1)) ELSE 0

\* re.sub(r"^[0-9]+-", "", str)
StripNumericPrefix(str) ==
    LET n == DigitRun(str)
    IN  IF n >= 1 /\ n < Len(str) /\ CharAt(str, n + 1) = "-"
        THEN From(str, n + 1)
        ELSE str

\* lines 276-282: the path of the patch below patches_repo / folder
RelPath(url) ==
    LET marker == "/" \o Folder \o "/"
    IN  IF Occurs(marker, url) THEN AfterFirst(url, marker) ELSE AfterLastSlash(url)

\* src_path.read_text()
ReadText(rel) == "text of " \o rel

\* line 271
PatchUrls(lines) ==
    SelectSeq([i \in 1..Len(lines) |-> Strip(lines[i])],
              LAMBDA l : EndsWith(l, ".patch"))

\* the loop as it would be if a missing file were passed over
RECURSIVE LoadLoop_SkipMissing(_, _, _)
LoadLoop_SkipMissing(urls, files, acc) ==
    IF urls = <<>> THEN acc
    ELSE LET rel == RelPath(Head(urls))
         IN  IF rel \notin files
             THEN LoadLoop_SkipMissing(Tail(urls), files, acc)
             ELSE LoadLoop_SkipMissing(Tail(urls), files,
                      Append(acc, Patch(StripNumericPrefix(Stem(rel)), ReadText(rel))))

\* lines 275-290: the collected list, or the exception raised
RECURSIVE LoadLoop(_, _, _)
LoadLoop(urls, files, acc) ==
    IF urls = <<>> THEN acc
    ELSE LET rel == RelPath(Head(urls))
         IN  IF rel \notin files
             THEN "FileNotFoundError"
             ELSE LoadLoop(Tail(urls), files,
                      Append(acc, Patch(StripNumericPrefix(Stem(rel)), ReadText(rel))))

\* Lines the PKGBUILD's source array may print
SourceCatalog ==
    { "https://h/6.19/sched/0001-bore.patch",
      "https://h/misc/0002-fix.patch",
      "https://h/6.19/0003-bbr3.patch ",
      "linux.tar.xz",
      "config" }

\* Files the patches checkout may hold below the folder
RepoPaths == { "sched/0001-bore.patch", "0002-fix.patch", "0003-bbr3.patch" }

InitCachy ==
    /\ pc = "eval"
    /\ source_lines \in SeqsUpTo(SourceCatalog, 0, MaxSources)
    /\ repo_files \in SUBSET RepoPaths
    /\ patch_urls = <<>>
    /\ collected = NoList
    /\ dest_dir = NoDir
    /\ SimIdle /\ WriteIdle /\ ExtractIdle

\* lines 252-273: evaluate the PKGBUILD, keep the .patch lines
EvalPkgbuild ==
    /\ pc = "eval"
    /\ \E ok \in BOOLEAN :
         IF ~ok
         THEN /\ pc' = "exit"
              /\ UNCHANGED patch_urls
         ELSE /\ patch_urls' = PatchUrls(source_lines)
              /\ pc' = IF PatchUrls(source_lines) = <<>> THEN "raised" ELSE "load"
    /\ UNCHANGED <<source_lines, repo_files, collected,
                   simVars, dest_dir, writeVars, extVars>>

\* lines 275-290
LoadPatches ==
    /\ pc = "load"
    /\ LET r == LoadLoop(patch_urls, repo_files, <<>>)
       IN  IF r = "FileNotFoundError"
           THEN /\ pc' = "raised"
                /\ UNCHANGED collected
           ELSE /\ collected' = r
                /\ pc' = "returned"
    /\ UNCHANGED <<source_lines, repo_files, patch_urls,
                   simVars, dest_dir, writeVars, extVars>>

NextCachy ==
    \/ EvalPkgbuild
    \/ LoadPatches

SpecCachy == InitCachy /\ [][NextCachy]_vars

-----------------------------------------------------------------------------
(* Reading the run back from its records *)

\* Subsequence of s at the positions in S, order kept
RECURSIVE Pick(_, _)
Pick(s, S) ==
    IF s = <<>> THEN <<>>
    ELSE LET rest == Pick(SubSeq(s, 1, Len(s) - 1), S)
         IN  IF Len(s) \in S THEN Append(rest, s[Len(s)]) ELSE rest

OutcomesOf(g)   == SelectSeq(outcome, LAMBDA o : o.group = g)
TriedIdx(g)     == {outcome[i].k : i \in {j \in 1..Len(outcome) : outcome[j].group = g}}
StatusIdx(g, st) ==
    {outcome[i].k : i \in {j \in 1..Len(outcome) :
                              outcome[j].group = g /\ outcome[j].status = st}}
PatchOf(o)      == IF o.group = "cachyos" THEN cachyos[o.k] ELSE tuxedo[o.k]

\* git's answer for patch k of group g in the given mode was a failure
CallFailed(g, k, mode) ==
    \E i \in 1..Len(git_calls) :
        /\ git_calls[i].group = g /\ git_calls[i].k = k
        /\ git_calls[i].mode = mode /\ git_calls[i].rc # 0

CallMade(g, k, mode) ==
    \E i \in 1..Len(git_calls) :
        git_calls[i].group = g /\ git_calls[i].k = k /\ git_calls[i].mode = mode

\* Some must-apply patch failed the direct and the three-way apply
MustApplyFailedAt(k) == CallFailed("cachyos", k, "apply") /\ CallFailed("cachyos", k, "3way")
MustApplyFailed      == \E k \in 1..Len(cachyos) : MustApplyFailedAt(k)

\* The inverse of the patch of outcome o applied cleanly to the index it met
InverseClean(o) == GitApplyReverseCheck(o.before, Diff(PatchOf(o).content)).rc = 0
DirectClean(o)  == GitApply(o.before, Diff(PatchOf(o).content)).rc = 0

-----------------------------------------------------------------------------
(* C1: when a must-apply patch fails both the direct and the three-way     *)
(* apply, simulate_apply raises and returns no list, no later must-apply   *)
(* patch and no best-effort patch is tried, and main() never calls         *)
(* write_patches: the destination directory stays as it was.               *)

C1_AbortedState ==
    \A k \in 1..Len(cachyos) :
        MustApplyFailedAt(k) =>
            /\ pc = "raised"
            /\ applied = NoList
            /\ \A i \in 1..Len(git_calls) :
                  git_calls[i].group = "cachyos" /\ git_calls[i].k <= k
            /\ TriedIdx("tuxedo") = {}

C1_MustApplyFailureAborts ==
    /\ [](C1_AbortedState)
    /\ [][MustApplyFailed' => dest_dir' = dest_dir]_vars

C1_Witness ==
    /\ pc = "raised"
    /\ MustApplyFailedAt(1)
    /\ Len(cachyos) > 1
    /\ tuxedo # <<>>
    /\ dest_dir.exists /\ DOMAIN dest_dir.files # {}

-----------------------------------------------------------------------------
(* C2 as stated: a best-effort patch whose inverse applies cleanly to the  *)
(* staging state it meets is classified skipped.                           *)

Returned == pc \in {"returned", "done"}

\* The list simulate_apply returns when best-effort patch k is left out
ShippedWithout(k) == cachyos \o Pick(tuxedo, StatusIdx("tuxedo", "applied") \ {k})

C2_Original ==
    \A i \in 1..Len(outcome) :
        (outcome[i].group = "tuxedo" /\ InverseClean(outcome[i]))
            => outcome[i].status = "skipped"

(* C2 amended: a best-effort patch whose direct apply fails and whose       *)
(* inverse applies cleanly to the staging state it meets is classified      *)
(* skipped, is not recorded as applied or failed, and is not in the list    *)
(* simulate_apply returns.                                                  *)
C2_ReverseCleanIsSkipped ==
    \A i \in 1..Len(outcome) :
        LET o == outcome[i]
        IN  (o.group = "tuxedo" /\ ~DirectClean(o) /\ InverseClean(o)) =>
                /\ o.status = "skipped"
                /\ ~CallMade("tuxedo", o.k, "3way")
                /\ Len(applied_tuxedo) = Cardinality(StatusIdx("tuxedo", "applied"))
                /\ Len(failed_tuxedo) = Cardinality(StatusIdx("tuxedo", "failed"))
                /\ Returned => applied = ShippedWithout(o.k)

C2_Witness ==
    /\ Returned
    /\ \E i \in 1..Len(outcome) :
          /\ outcome[i].group = "tuxedo" /\ outcome[i].status = "skipped"
          /\ ~DirectClean(outcome[i]) /\ InverseClean(outcome[i])
    /\ applied_tuxedo # <<>>

-----------------------------------------------------------------------------
(* C3: the list simulate_apply returns is the must-apply patches classified *)
(* applied, in their order, followed by the best-effort patches classified  *)
(* applied, in their order, each once and nothing else.                     *)

C3_OutputOrder ==
    Returned =>
        /\ applied = Pick(cachyos, StatusIdx("cachyos", "applied"))
                       \o Pick(tuxedo, StatusIdx("tuxedo", "applied"))
        /\ Len(applied) = Cardinality(StatusIdx("cachyos", "applied"))
                           + Cardinality(StatusIdx("tuxedo", "applied"))
        /\ Len(outcome) = Len(cachyos) + Len(tuxedo)

C3_Witness ==
    /\ Returned
    /\ Len(cachyos) = 2 /\ cachyos[1] # cachyos[2]
    /\ StatusIdx("tuxedo", "applied") # {}
    /\ StatusIdx("tuxedo", "applied") # 1..Len(tuxedo)
    /\ \E k \in StatusIdx("tuxedo", "applied") : tuxedo[k] # cachyos[1]

-----------------------------------------------------------------------------
(* C4: a best-effort patch that fails the direct apply, the reverse check   *)
(* and the three-way apply does not abort the run: it is recorded once in   *)
(* failed_tuxedo with its diagnostic, is not in the output, the later       *)
(* best-effort patches are still tried in order, and simulate_apply returns.*)

BestEffortFailedAt(k) ==
    /\ CallFailed("tuxedo", k, "apply")
    /\ CallFailed("tuxedo", k, "reverse-check")
    /\ CallFailed("tuxedo", k, "3way")

\* The (label, msg) pairs of the best-effort outcomes classified failed, in order
FailedRecords ==
    LET f == SelectSeq(outcome, LAMBDA o : o.group = "tuxedo" /\ o.status = "failed")
    IN  [j \in 1..Len(f) |-> <<tuxedo[f[j].k].label, f[j].msg>>]

C4_BestEffortFailureRecovered ==
    \A k \in 1..Len(tuxedo) :
        BestEffortFailedAt(k) =>
            /\ pc \in {"tuxedo", "returned", "done"}
            /\ k \in StatusIdx("tuxedo", "failed")
            /\ failed_tuxedo = FailedRecords
            /\ \A j \in 1..Len(failed_tuxedo) : failed_tuxedo[j][2] # ""
            /\ Len(OutcomesOf("tuxedo")) = ti - 1
            /\ \A j \in 1..(ti - 1) : OutcomesOf("tuxedo")[j].k = j
            /\ pc = "tuxedo" => (ti <= Len(tuxedo) + 1 /\ ENABLED (TuxedoStep \/ SimulateReturn))
            /\ Returned => /\ ti = Len(tuxedo) + 1
                           /\ applied = ShippedWithout(k)

C4_Witness ==
    /\ Returned
    /\ BestEffortFailedAt(1)
    /\ Len(tuxedo) = 2
    /\ 2 \in StatusIdx("tuxedo", "applied")

-----------------------------------------------------------------------------
(* C5: a must-apply patch is never reverse-checked and never classified     *)
(* skipped; when its direct and three-way applies fail the run is aborted   *)
(* even if its inverse applies cleanly to the staging state.                *)

-----------------------------------------------------------------------------
(* C7: however simulate_apply ends (return, must-apply failure, read-tree   *)
(* failure) the temporary index file is gone afterwards, and it exists only *)
(* while simulate_apply runs.                                               *)

C7_IndexFileRemoved ==
    /\ pc \in {"returned", "done", "raised"} => index_path = "removed"
    /\ pc \in {"read_tree", "cachyos", "tuxedo"} => index_path = "exists"
    /\ pc = "simulate" => index_path = "absent"

C7_Witness ==
    /\ pc = "raised"
    /\ MustApplyFailed
    /\ index_path = "removed"

-----------------------------------------------------------------------------
(* C8: after write_patches the directory holds one file per patch, the i-th *)
(* named by the number start+i-1 zero-padded to 4 digits and the label, and *)
(* nothing else, whatever it held before and even when labels repeat; a     *)
(* second call with the same arguments leaves the same contents.            *)

ZeroPad4(n) ==
    CASE n < 10   -> "000" \o ToString(n)
      [] n >= 10 /\ n < 100   -> "00" \o ToString(n)
      [] n >= 100 /\ n < 1000 -> "0" \o ToString(n)
      [] OTHER -> ToString(n)

ExpectedName(i) ==
    ZeroPad4(start_number + i - 1) \o "-" \o patches[i].label \o ".patch"

C8_ReplaceAllIdempotent ==
    /\ runs >= 1 =>
          /\ dest_dir.exists
          /\ DOMAIN dest_dir.files = {ExpectedName(i) : i \in 1..Len(patches)}
          /\ Cardinality(DOMAIN dest_dir.files) = Len(patches)
          /\ \A i \in 1..Len(patches) : dest_dir.files[ExpectedName(i)] = patches[i].content
    /\ runs >= 2 => dest_dir = dir_before[runs]

C8_Witness ==
    /\ runs = 2
    /\ Len(patches) = 2
    /\ patches[1].label = patches[2].label
    /\ patches[1].content # patches[2].content
    /\ start_number = 9999
    /\ dir_before[1].exists /\ DOMAIN dir_before[1].files # {}
    /\ dest_dir = dir_before[2]

-----------------------------------------------------------------------------
(* C6: after the Exclusion Set is applied, no commit whose identifier       *)
(* equals an entry or starts with an entry (an abbreviation of any length)  *)
(* is left in the list, and the commits left keep their order.              *)

Filtered == pc \in {"guard", "materialize", "materialized"}

Matches(h, excl) == \E e \in excl : StartsWith(h, e)

C6_ExclusionByAnyPrefix ==
    Filtered =>
        ordered_tuxedo_unique =
            Pick(rev_out, {i \in 1..Len(rev_out) : ~Matches(rev_out[i], exclude_commits)})

-----------------------------------------------------------------------------
(* C10: the count guard ends the run when more than 50 commits remain after *)
(* the Exclusion Set, before anything is materialised; with 50 or fewer the *)
(* commits are all passed on, unchanged and in order.                       *)

CommitsOf(ps) == [i \in 1..Len(ps) |-> From(ps[i].content, 5)]

C10_GuardStep ==
    pc = "guard" =>
        /\ ordered_tuxedo_unique' = ordered_tuxedo_unique
        /\ tuxedo_patches' = <<>>
        /\ pc' = IF Len(ordered_tuxedo_unique) > 50 THEN "exit" ELSE "materialize"

C10_GuardState ==
    /\ pc = "exit" => tuxedo_patches = <<>>
    /\ pc = "materialize" => Len(ordered_tuxedo_unique) <= 50
    /\ pc = "materialized" =>
          /\ Len(tuxedo_patches) = Len(ordered_tuxedo_unique)
          /\ Len(tuxedo_patches) <= 50
          /\ CommitsOf(tuxedo_patches) = ordered_tuxedo_unique
          /\ ordered_tuxedo_unique = ExcludeFilter(rev_out, exclude_commits)

C10_CountGuardFatal ==
    /\ [](C10_GuardState)
    /\ [][C10_GuardStep]_vars

C10_Witness ==
    /\ pc = "exit"
    /\ Len(ordered_tuxedo_unique) = 51
    /\ Len(rev_out) = 52
    /\ tuxedo_patches = <<>>

-----------------------------------------------------------------------------
(* C9: collect_cachyos_patches returns one patch per declared URL ending in *)
(* .patch, in manifest order, or fails: it fails when no patch URL is       *)
(* declared and when a declared patch is missing from the checkout, and     *)
(* never returns a shorter list.                                            *)

DeclaredPatchUrls ==
    SelectSeq([i \in 1..Len(source_lines) |-> Strip(source_lines[i])],
              LAMBDA l : Len(l) >= 6 /\ From(l, Len(l) - 6) = ".patch")

C9_NoDeclaredPatchDropped ==
    /\ pc = "returned" =>
          /\ Len(collected) = Len(DeclaredPatchUrls)
          /\ Len(collected) >= 1
          /\ \A i \in 1..Len(collected) :
                /\ RelPath(DeclaredPatchUrls[i]) \in repo_files
                /\ collected[i].content = ReadText(RelPath(DeclaredPatchUrls[i]))
    /\ pc # "returned" => collected = NoList
    /\ (pc \notin {"eval", "load"}
          /\ (DeclaredPatchUrls = <<>>
                \/ \E i \in 1..Len(DeclaredPatchUrls) :
                      RelPath(DeclaredPatchUrls[i]) \notin repo_files))
       => pc \in {"raised", "exit"}

C9_Witness ==
    /\ pc = "returned"
    /\ Len(collected) = 2
    /\ Len(source_lines) = 3
    /\ collected[1] # collected[2]
    /\ repo_files # RepoPaths

-----------------------------------------------------------------------------
(* C11 as stated: the label of a commit is non-empty, is made of characters *)
(* of [A-Za-z0-9._-], neither starts nor ends with a hyphen, and is the     *)
(* first 12 characters of the commit identifier exactly when the sanitized  *)
(* subject is empty.                                                        *)

\* The characters of str that sanitizing keeps and stripping cannot remove
IsContent(c) == IsSafe(c) /\ c # "-"

RECURSIVE Content(_)
Content(str) ==
    IF str = "" THEN ""
    ELSE IF IsContent(CharAt(str, 1)) THEN CharAt(str, 1) \o Content(From(str, 1))
    ELSE Content(From(str, 1))

\* The sanitized subject is empty: the subject holds nothing but hyphens and
\* characters outside [A-Za-z0-9._-]
SanitizedEmpty(subject) == \A i \in 1..Len(subject) : ~IsContent(CharAt(subject, i))

LabelWellFormed(label) ==
    /\ label # ""
    /\ \A i \in 1..Len(label) : IsSafe(CharAt(label, i))
    /\ CharAt(label, 1) # "-"
    /\ CharAt(label, Len(label)) # "-"

SubjectAt(i) == SubjectGet(tuxedo_subjects, ordered_tuxedo_unique[i])

C11_Original ==
    pc = "materialized" =>
        \A i \in 1..Len(tuxedo_patches) :
            /\ LabelWellFormed(tuxedo_patches[i].label)
            /\ (tuxedo_patches[i].label = Slice(ordered_tuxedo_unique[i], 12))
                  <=> SanitizedEmpty(SubjectAt(i))

(* C11 amended: the label of a commit is non-empty, is made of characters   *)
(* of [A-Za-z0-9._-], neither starts nor ends with a hyphen, is the first   *)
(* 12 characters of the commit identifier whenever the sanitized subject is *)
(* empty, and otherwise is no longer than the subject and keeps exactly the *)
(* subject's characters of [A-Za-z0-9._], in order.                         *)
C11_LabelTotal ==
    pc = "materialized" =>
        /\ Len(tuxedo_patches) = Len(ordered_tuxedo_unique)
        /\ \A i \in 1..Len(tuxedo_patches) :
              LET label == tuxedo_patches[i].label
              IN  /\ LabelWellFormed(label)
                  /\ SanitizedEmpty(SubjectAt(i))
                        => label = Slice(ordered_tuxedo_unique[i], 12)
                  /\ ~SanitizedEmpty(SubjectAt(i))
                        => /\ Content(label) = Content(SubjectAt(i))
                           /\ Len(label) <= Len(SubjectAt(i))

C11_Witness ==
    /\ pc = "materialized"
    /\ SubjectAt(1) = "! !-"
    /\ tuxedo_patches[1].label = Slice(ordered_tuxedo_unique[1], 12)

-----------------------------------------------------------------------------
(* C12: the patches are tested in order, must-apply first, and the k-th one *)
(* meets the base tree plus the changes of the earlier patches classified   *)
(* applied, in order: a patch classified skipped or failed leaves the       *)
(* staging index as it found it for the patches after it.                   *)

\* The index an applied patch leaves: its change made to the index it met
ChangeMade(o) ==
    LET d == Diff(PatchOf(o).content)
    IN  IF DirectClean(o) THEN GitApply(o.before, d).index
        ELSE GitApply3way(o.before, d, FALSE).index

\* The index the patch after outcome o is to meet
LeftBy(o) == IF o.status = "applied" THEN ChangeMade(o) ELSE o.before

\* Position of outcome o in the order must-apply first, then best-effort
OrderOf(o) == IF o.group = "cachyos" THEN o.k ELSE Len(cachyos) + o.k

C12_InOrderCumulative ==
    /\ \A i \in 1..Len(outcome) : OrderOf(outcome[i]) = i
    /\ Len(outcome) >= 1 => outcome[1].before = GitReadTree(base_tree)
    /\ \A i \in 2..Len(outcome) : outcome[i].before = LeftBy(outcome[i - 1])
    /\ (Len(outcome) >= 1 /\ pc \in {"cachyos", "tuxedo"})
          => index = LeftBy(outcome[Len(outcome)])

====
